---- MODULE Spec2Model ----
(***************************************************************************)
(* Terrain analyzer (src/app.py): a Streamlit script that reads a formula   *)
(* f(x,y) and a query point from sidebar widgets, runs process_function     *)
(* (sympify, diff, lambdify, scalar and grid evaluation) and renders the    *)
(* result in two columns.                                                   *)
(*                                                                         *)
(* Numbers are exact rationals [n, d]; a float the model cannot compute     *)
(* exactly (sin(1), 2**0.5) is the cell "fin", a finite real of unknown     *)
(* value.  Non-finite floats are the cells "nan" and "inf" (q = sign).      *)
(* Slider positions are counted in ticks of 0.1.                            *)
(***************************************************************************)
EXTENDS Integers, Sequences, FiniteSets

\* ------------------------------------------------------------------ bounds

\* Slider ticks explored on each axis: -MaxTick .. MaxTick and the default
\* position with its mirror image (the sliders reach 50 ticks either way).
MaxTick == 3

\* Samples per axis of the sampling grid (np.linspace(-6, 6, 100) has 100).
GridN == 4

\* ------------------------------------------------------- program constants

\* st.sidebar.slider(..., -5.0, 5.0, 1.0, 0.1): range, default and step in ticks.
SliderMax == 50
SliderDefault == 10
TicksPerUnit == 10

\* np.linspace(-6, 6, ...)
GridLo == -6
GridHi == 6

\* ----------------------------------------------------------------- rationals

AbsInt(a) == IF a < 0 THEN -a ELSE a

RECURSIVE Gcd(_, _)
Gcd(a, b) == IF b = 0 THEN a ELSE Gcd(b, a % b)

Reduced(n, d, g) == [n |-> n \div g, d |-> d \div g]

\* n/d in lowest terms with a positive denominator
Rat(n, d) ==
    IF d < 0 THEN Reduced(-n, -d, Gcd(AbsInt(n), AbsInt(d)))
    ELSE Reduced(n, d, Gcd(AbsInt(n), AbsInt(d)))

RZero == [n |-> 0, d |-> 1]
ROne == [n |-> 1, d |-> 1]
RInt(k) == [n |-> k, d |-> 1]

RAdd(a, b) == Rat(a.n * b.d + b.n * a.d, a.d * b.d)
RNeg(a) == [n |-> -a.n, d |-> a.d]
RMul(a, b) == Rat(a.n * b.n, a.d * b.d)
RInv(a) == Rat(a.d, a.n)
RLt(a, b) == a.n * b.d < b.n * a.d
RIsInt(a) == a.d = 1
RSign(a) == IF a.n < 0 THEN -1 ELSE IF a.n = 0 THEN 0 ELSE 1

RECURSIVE RPowNat(_, _)
RPowNat(a, k) == IF k = 0 THEN ROne ELSE RMul(a, RPowNat(a, k - 1))

\* a ** k for an integer k and a # 0 when k < 0
RPowInt(a, k) == IF k >= 0 THEN RPowNat(a, k) ELSE RPowNat(RInv(a), -k)

\* ------------------------------------------------------ IEEE-754 cells
\* The value of one float: a rational, an unknown finite real, NaN or +-inf.

CRat(q) == [c |-> "rat", q |-> q]
CFin == [c |-> "fin", q |-> RZero]
CNan == [c |-> "nan", q |-> RZero]
CInf(sign) == [c |-> "inf", q |-> RInt(sign)]

IsFinite(v) == v.c \in {"rat", "fin"}
CSign(v) == IF v.c = "fin" THEN 1 ELSE RSign(v.q)

VAdd(a, b) ==
    IF a.c = "nan" \/ b.c = "nan" THEN CNan
    ELSE IF a.c = "inf" /\ b.c = "inf" THEN (IF a.q = b.q THEN a ELSE CNan)
    ELSE IF a.c = "inf" THEN a
    ELSE IF b.c = "inf" THEN b
    ELSE IF a.c = "fin" \/ b.c = "fin" THEN CFin
    ELSE CRat(RAdd(a.q, b.q))

VMul(a, b) ==
    IF a.c = "nan" \/ b.c = "nan" THEN CNan
    ELSE IF a.c = "inf" \/ b.c = "inf"
         THEN (IF CSign(a) = 0 \/ CSign(b) = 0 THEN CNan ELSE CInf(CSign(a) * CSign(b)))
    ELSE IF a = CRat(RZero) \/ b = CRat(RZero) THEN CRat(RZero)
    ELSE IF a.c = "fin" \/ b.c = "fin" THEN CFin
    ELSE CRat(RMul(a.q, b.q))

\* --------------------------------------------------- sympy expressions
\* An expression in sympy's canonical form: a set of terms (Add), each a
\* rational coefficient times a set of factors atom**exponent (Mul of Pow).
\* An atom is a Symbol, an applied Function, a parenthesised sub-expression
\* (an Add inside a Mul or a Pow) or an unevaluated Derivative.  Like terms and
\* like factors are combined and numbers folded, as sympy's constructors do.
\* Exponents are numbers, as in every formula of the corpus.

Atom(kind, name, args) == [kind |-> kind, name |-> name, args |-> args]
Factor(a, e) == [a |-> a, e |-> e]
Term(c, m) == [c |-> c, m |-> m]

ENum(q) == IF q = RZero THEN {} ELSE {Term(q, {})}
EAtom(a) == {Term(ROne, {Factor(a, ROne)})}
Symbol(name) == EAtom(Atom("Symbol", name, <<>>))

IsNumber(p) == \A t \in p : t.m = {}
NumOf(p) == IF p = {} THEN RZero ELSE (CHOOSE t \in p : TRUE).c

Coef(p, m) == IF \E t \in p : t.m = m THEN (CHOOSE t \in p : t.m = m).c ELSE RZero

\* Add: like terms are collected, zero terms dropped
EAdd(p, q) ==
    {Term(RAdd(Coef(p, m), Coef(q, m)), m) :
        m \in {mm \in {t.m : t \in p \cup q} : RAdd(Coef(p, mm), Coef(q, mm)) # RZero}}

EScale(k, p) == IF k = RZero THEN {} ELSE {Term(RMul(k, t.c), t.m) : t \in p}

MExp(m, a) == IF \E f \in m : f.a = a THEN (CHOOSE f \in m : f.a = a).e ELSE RZero

\* Mul of two products: exponents of like bases are added
MMul(m1, m2) ==
    {Factor(a, RAdd(MExp(m1, a), MExp(m2, a))) :
        a \in {b \in {f.a : f \in m1 \cup m2} : RAdd(MExp(m1, b), MExp(m2, b)) # RZero}}

\* An Add used as a factor stays an unexpanded sub-expression.
AsTerm(p) ==
    IF Cardinality(p) = 1 THEN CHOOSE t \in p : TRUE
    ELSE Term(ROne, {Factor(Atom("Paren", "", <<p>>), ROne)})

MulTerms(a, b) == {Term(RMul(a.c, b.c), MMul(a.m, b.m))}

\* Mul: a number distributes over a sum
EMul(p, q) ==
    IF IsNumber(p) THEN EScale(NumOf(p), q)
    ELSE IF IsNumber(q) THEN EScale(NumOf(q), p)
    ELSE MulTerms(AsTerm(p), AsTerm(q))

PowTerm(p, t, r) ==
    IF RIsInt(r)
    THEN {Term(RPowInt(t.c, r.n), {Factor(f.a, RMul(f.e, r)) : f \in t.m})}
    ELSE IF t.c = ROne /\ Cardinality(t.m) = 1 /\ \A f \in t.m : f.e = ROne
    THEN {Term(ROne, {Factor(f.a, r) : f \in t.m})}
    ELSE {Term(ROne, {Factor(Atom("Paren", "", <<p>>), r)})}

\* Pow: p ** r for a number r; a zero base with r < 0 is not in the corpus.
EPow(p, r) ==
    IF r = RZero THEN ENum(ROne)
    ELSE IF r = ROne THEN p
    ELSE IF IsNumber(p) /\ RIsInt(r) THEN ENum(RPowInt(NumOf(p), r.n))
    ELSE PowTerm(p, AsTerm(p), r)

\* The functions sympy's namespace defines among those the corpus calls.
KnownFunctions == {"sin", "cos", "exp", "log"}

\* f(arg): sympy evaluates the exact values it knows, else keeps f(arg).
EFunc(name, arg) ==
    IF name = "sin" /\ arg = {} THEN {}
    ELSE IF name \in {"cos", "exp"} /\ arg = {} THEN ENum(ROne)
    ELSE IF name = "log" /\ arg = ENum(ROne) THEN {}
    ELSE EAtom(Atom("Function", name, <<arg>>))

\* ------------------------------------------------------------- sp.diff

RECURSIVE diff(_, _), SumDTerms(_, _), SumDFactors(_, _, _), DAtom(_, _), DFactor(_, _)
RECURSIVE ProductRule(_, _, _, _), SumRule(_, _, _)

\* A faulty d(symbol)/dv that takes every symbol for the variable.
DSymbolAny(a, v) == ENum(ROne)

\* d(symbol)/dv
DSymbol(a, v) == IF a.name = v THEN ENum(ROne) ELSE {}

\* d f(u)/dv = f'(u) * du/dv; an undefined function keeps a Derivative
ChainRule(a, u, du) ==
    IF du = {} THEN {}
    ELSE IF a.kind = "Function" /\ a.name = "sin" THEN EMul(EFunc("cos", u), du)
    ELSE IF a.kind = "Function" /\ a.name = "cos"
         THEN EMul(EScale(RInt(-1), EFunc("sin", u)), du)
    ELSE IF a.kind = "Function" /\ a.name = "exp" THEN EMul(EFunc("exp", u), du)
    ELSE IF a.kind = "Function" /\ a.name = "log" THEN EMul(EPow(u, RInt(-1)), du)
    ELSE EAtom(Atom("Derivative", a.name, <<u>>))

DAtom(a, v) ==
    IF a.kind = "Symbol" THEN DSymbol(a, v)
    ELSE IF a.kind = "Paren" THEN diff(a.args[1], v)
    ELSE ChainRule(a, a.args[1], diff(a.args[1], v))

\* A faulty power rule that loses the factor e.
PowerRuleNoExponent(f, da) ==
    IF da = {} THEN {}
    ELSE EMul(EPow(EAtom(f.a), RAdd(f.e, RInt(-1))), da)

\* d(a**e)/dv = e * a**(e-1) * da/dv
PowerRule(f, da) ==
    IF da = {} THEN {}
    ELSE EMul(EScale(f.e, EPow(EAtom(f.a), RAdd(f.e, RInt(-1)))), da)

DFactor(f, v) == PowerRule(f, DAtom(f.a, v))

\* the summand of the product rule for the factor f of the term t
ProductRule(t, f, fs, v) ==
    EAdd(EMul({Term(t.c, t.m \ {f})}, DFactor(f, v)), SumDFactors(t, fs \ {f}, v))

SumDFactors(t, fs, v) ==
    IF fs = {} THEN {} ELSE ProductRule(t, CHOOSE g \in fs : TRUE, fs, v)

SumRule(t, ts, v) == EAdd(SumDFactors(t, t.m, v), SumDTerms(ts \ {t}, v))

SumDTerms(ts, v) == IF ts = {} THEN {} ELSE SumRule(CHOOSE u \in ts : TRUE, ts, v)

diff(p, v) == SumDTerms(p, v)

\* ------------------------------------------------------------ exceptions

Exc(cls, msg) == [cls |-> cls, msg |-> msg]
NoExc == Exc("", "")

\* Classes that derive from Exception; SystemExit derives from BaseException only.
ExceptionClasses ==
    {"Exception", "SympifyError", "NameError", "ZeroDivisionError", "TypeError"}

Returned(v) == [st |-> "ok", val |-> v, exc |-> NoExc]
Raised(e) == [st |-> "raise", val |-> <<>>, exc |-> e]

\* --------------------------------------------------------- sp.sympify
\* A formula string is its token sequence.  sympify compiles the whole string
\* as one Python expression (a SyntaxError becomes a SympifyError) and evals
\* it in sympy's namespace, which also holds Python's builtin functions: a
\* name it does not know becomes a Symbol, or an undefined Function when it
\* is called.

NumberTokens == {"0", "1", "2", "10", "50", "100", "0.1", "0.5"}
NameTokens == {"x", "y", "z", "sin", "cos", "exp", "log", "foo", "exec"}
StringTokens == {"'raise Exception()'", "'raise SystemExit'"}

NumVal(t) ==
    CASE t = "0" -> RInt(0)
      [] t = "1" -> RInt(1)
      [] t = "2" -> RInt(2)
      [] t = "10" -> RInt(10)
      [] t = "50" -> RInt(50)
      [] t = "100" -> RInt(100)
      [] t = "0.1" -> Rat(1, 10)
      [] t = "0.5" -> Rat(1, 2)

Tok(ts, p) == IF p <= Len(ts) THEN ts[p] ELSE "<EOF>"
Fail == [ok |-> FALSE, ast |-> <<>>, pos |-> 0]
Ok(a, p) == [ok |-> TRUE, ast |-> a, pos |-> p]

RECURSIVE ParseSum(_, _), ParseSumRest(_, _, _), ParseTerm(_, _), ParseTermRest(_, _, _)
RECURSIVE ParseFactor(_, _), ParsePower(_, _), ParseAtom(_, _)
RECURSIVE SumStep(_, _, _, _), SumStart(_, _), TermStep(_, _, _, _), TermStart(_, _)
RECURSIVE PowerTail(_, _)

CloseParen(ts, a) ==
    IF a.ok /\ Tok(ts, a.pos) = ")" THEN Ok(a.ast, a.pos + 1) ELSE Fail

CloseCall(ts, f, a) ==
    IF a.ok /\ Tok(ts, a.pos) = ")"
    THEN Ok([k |-> "call", f |-> f, a |-> a.ast], a.pos + 1)
    ELSE Fail

\* atom: NUMBER | STRING | NAME | NAME '(' sum ')' | '(' sum ')'
ParseAtom(ts, p) ==
    IF Tok(ts, p) \in NumberTokens THEN Ok([k |-> "num", v |-> Tok(ts, p)], p + 1)
    ELSE IF Tok(ts, p) \in StringTokens THEN Ok([k |-> "str", v |-> Tok(ts, p)], p + 1)
    ELSE IF Tok(ts, p) \in NameTokens /\ Tok(ts, p + 1) = "("
         THEN CloseCall(ts, Tok(ts, p), ParseSum(ts, p + 2))
    ELSE IF Tok(ts, p) \in NameTokens THEN Ok([k |-> "name", v |-> Tok(ts, p)], p + 1)
    ELSE IF Tok(ts, p) = "(" THEN CloseParen(ts, ParseSum(ts, p + 1))
    ELSE Fail

MkBin(op, l, b) ==
    IF b.ok THEN Ok([k |-> "bin", op |-> op, l |-> l, r |-> b.ast], b.pos) ELSE Fail

MkUnary(op, a) ==
    IF a.ok THEN Ok([k |-> "unary", op |-> op, a |-> a.ast], a.pos) ELSE Fail

PowerTail(ts, a) ==
    IF a.ok /\ Tok(ts, a.pos) = "**"
    THEN MkBin("**", a.ast, ParseFactor(ts, a.pos + 1))
    ELSE a

\* power: atom ['**' factor]
ParsePower(ts, p) == PowerTail(ts, ParseAtom(ts, p))

\* factor: ('+' | '-') factor | power
ParseFactor(ts, p) ==
    IF Tok(ts, p) \in {"+", "-"} THEN MkUnary(Tok(ts, p), ParseFactor(ts, p + 1))
    ELSE ParsePower(ts, p)

TermStep(ts, op, acc, b) ==
    IF b.ok THEN ParseTermRest(ts, b.pos, [k |-> "bin", op |-> op, l |-> acc, r |-> b.ast])
    ELSE Fail

ParseTermRest(ts, p, acc) ==
    IF Tok(ts, p) \in {"*", "/"} THEN TermStep(ts, Tok(ts, p), acc, ParseFactor(ts, p + 1))
    ELSE Ok(acc, p)

TermStart(ts, a) == IF a.ok THEN ParseTermRest(ts, a.pos, a.ast) ELSE Fail

\* term: factor (('*' | '/') factor)*
ParseTerm(ts, p) == TermStart(ts, ParseFactor(ts, p))

SumStep(ts, op, acc, b) ==
    IF b.ok THEN ParseSumRest(ts, b.pos, [k |-> "bin", op |-> op, l |-> acc, r |-> b.ast])
    ELSE Fail

ParseSumRest(ts, p, acc) ==
    IF Tok(ts, p) \in {"+", "-"} THEN SumStep(ts, Tok(ts, p), acc, ParseTerm(ts, p + 1))
    ELSE Ok(acc, p)

SumStart(ts, a) == IF a.ok THEN ParseSumRest(ts, a.pos, a.ast) ELSE Fail

\* sum: term (('+' | '-') term)*
ParseSum(ts, p) == SumStart(ts, ParseTerm(ts, p))

\* compile(source, '<string>', 'eval'): the whole string is one expression
WholeString(r, n) == r.ok /\ r.pos = n + 1
Compiles(ts) == WholeString(ParseSum(ts, 1), Len(ts))

\* exec(source): the builtin runs the statement the string holds.
ExecBuiltin(src) ==
    IF src = "'raise SystemExit'" THEN Raised(Exc("SystemExit", ""))
    ELSE Raised(Exc("Exception", ""))

RECURSIVE EvalAst(_)

EvalBin(op, l, r) ==
    IF l.st # "ok" THEN l
    ELSE IF r.st # "ok" THEN r
    ELSE IF op = "+" THEN Returned(EAdd(l.val, r.val))
    ELSE IF op = "-" THEN Returned(EAdd(l.val, EScale(RInt(-1), r.val)))
    ELSE IF op = "*" THEN Returned(EMul(l.val, r.val))
    ELSE IF op = "/" THEN Returned(EMul(l.val, EPow(r.val, RInt(-1))))
    ELSE Returned(EPow(l.val, NumOf(r.val)))

EvalUnary(op, u) ==
    IF u.st # "ok" \/ op = "+" THEN u ELSE Returned(EScale(RInt(-1), u.val))

EvalCall(f, u) == IF u.st # "ok" THEN u ELSE Returned(EFunc(f, u.val))

\* eval of the transformed code: operators and calls build sympy expressions
EvalAst(a) ==
    IF a.k = "num" THEN Returned(ENum(NumVal(a.v)))
    ELSE IF a.k = "name" THEN Returned(Symbol(a.v))
    ELSE IF a.k = "unary" THEN EvalUnary(a.op, EvalAst(a.a))
    ELSE IF a.k = "call" /\ a.f = "exec" /\ a.a.k = "str" THEN ExecBuiltin(a.a.v)
    ELSE IF a.k = "call" THEN EvalCall(a.f, EvalAst(a.a))
    ELSE IF a.k = "bin" THEN EvalBin(a.op, EvalAst(a.l), EvalAst(a.r))
    ELSE Raised(Exc("SympifyError", "SympifyError: a string is not an expression"))

SympifyParsed(r, n) ==
    IF ~WholeString(r, n)
    THEN Raised(Exc("SympifyError", "Sympify of expression 'could not parse' failed"))
    ELSE EvalAst(r.ast)

sympify(formula_str) == SympifyParsed(ParseSum(formula_str, 1), Len(formula_str))

\* ------------------------------------------------- Python and numpy values
\* A number at run time: its type and its cell.  "ndarray" is one element of
\* an array operand; numpy computes it like a float64 scalar.  The types are
\* listed in the order of arithmetic coercion.

None == [ty |-> "NoneType"]
Str(s) == [ty |-> "str", s |-> s]
PyVal(ty, cell) == [ty |-> ty, cell |-> cell]
PyFloat(q) == PyVal("float", CRat(q))

TyRank(ty) ==
    CASE ty = "int" -> 1 [] ty = "float" -> 2 [] ty = "npfloat" -> 3 [] ty = "ndarray" -> 4

TyJoin(a, b) == IF TyRank(a) >= TyRank(b) THEN a ELSE b

\* Python's int and float raise on a zero division; numpy's types do not.
IsPythonNumber(v) == v.ty \in {"int", "float"}

\* A sympy Integer prints as an int literal, any other Rational as p/q.
NumValue(q) == PyVal(IF RIsInt(q) THEN "int" ELSE "float", CRat(q))

AddValue(a, b) == PyVal(TyJoin(a.ty, b.ty), VAdd(a.cell, b.cell))
MulValue(a, b) == PyVal(TyJoin(a.ty, b.ty), VMul(a.cell, b.cell))

\* numpy.sin, numpy.cos, numpy.exp, numpy.log of one float64: no exception,
\* a domain error is nan or inf.  The value at a rational other than the
\* exact ones below is a non-zero finite float the model does not compute;
\* the corpus applies no function to such a float.
NumpyCell(name, c) ==
    CASE c.c = "nan" -> CNan
      [] c.c = "inf" /\ name \in {"sin", "cos"} -> CNan
      [] c.c = "inf" /\ name = "exp" -> (IF c.q.n > 0 THEN c ELSE CRat(RZero))
      [] c.c = "inf" /\ name = "log" -> (IF c.q.n > 0 THEN c ELSE CNan)
      [] c.c = "rat" /\ name = "sin" -> (IF c.q = RZero THEN c ELSE CFin)
      [] c.c = "rat" /\ name \in {"cos", "exp"} -> (IF c.q = RZero THEN CRat(ROne) ELSE CFin)
      [] c.c = "rat" /\ name = "log" ->
            (IF c.q.n < 0 THEN CNan
             ELSE IF c.q = RZero THEN CInf(-1)
             ELSE IF c.q = ROne THEN CRat(RZero)
             ELSE CFin)

NumpyFunc(name, v) ==
    PyVal(IF v.ty = "ndarray" THEN "ndarray" ELSE "npfloat", NumpyCell(name, v.cell))

SignPow(sign, k) == IF sign < 0 /\ k % 2 = 1 THEN -1 ELSE 1

\* c ** k for an integer k; a float64 zero to a negative power is inf
PowCell(c, k) ==
    IF k = 0 THEN CRat(ROne)
    ELSE IF c.c = "nan" THEN CNan
    ELSE IF c.c = "inf" THEN (IF k > 0 THEN CInf(SignPow(c.q.n, k)) ELSE CRat(RZero))
    ELSE IF c.c = "fin" THEN CFin
    ELSE IF c.q = RZero /\ k < 0 THEN CInf(1)
    ELSE CRat(RPowInt(c.q, k))

PowType(ty, k) == IF ty = "int" /\ k < 0 THEN "float" ELSE ty

\* v ** k and 1/v**(-k) as the generated code computes them
PowValue(v, k) ==
    IF IsPythonNumber(v) /\ v.cell = CRat(RZero) /\ k < 0
    THEN Raised(Exc("ZeroDivisionError", "float division by zero"))
    ELSE Returned(PyVal(PowType(v.ty, k), PowCell(v.cell, k)))

\* ------------------------------------------------------------ sp.lambdify
\* lambdify((x, y), expr, 'numpy') prints expr as Python source over the
\* numpy namespace; the call evaluates it with the arguments bound to x and y.
\* A name the namespace lacks raises NameError at the call.

AddOutcomes(a, b) ==
    IF a.st # "ok" THEN a ELSE IF b.st # "ok" THEN b ELSE Returned(AddValue(a.val, b.val))

MulOutcomes(a, b) ==
    IF a.st # "ok" THEN a ELSE IF b.st # "ok" THEN b ELSE Returned(MulValue(a.val, b.val))

PowOutcome(a, e) == IF a.st # "ok" THEN a ELSE PowValue(a.val, e.n)

FuncOutcome(name, a) == IF a.st # "ok" THEN a ELSE Returned(NumpyFunc(name, a.val))

NotDefined(name) == Raised(Exc("NameError", "name is not defined"))

RECURSIVE EvalTerms(_, _, _), EvalFactors(_, _, _), EvalAtom(_, _, _)
RECURSIVE EvalTermStep(_, _, _, _), FactorStep(_, _, _, _)

EvalAtom(a, xv, yv) ==
    IF a.kind = "Symbol" /\ a.name = "x" THEN Returned(xv)
    ELSE IF a.kind = "Symbol" /\ a.name = "y" THEN Returned(yv)
    ELSE IF a.kind = "Paren" THEN EvalTerms(a.args[1], xv, yv)
    ELSE IF a.kind = "Function" /\ a.name \in KnownFunctions
         THEN FuncOutcome(a.name, EvalTerms(a.args[1], xv, yv))
    ELSE NotDefined(a.name)

EvalFactor(f, xv, yv) == PowOutcome(EvalAtom(f.a, xv, yv), f.e)

FactorStep(f, fs, xv, yv) ==
    MulOutcomes(EvalFactor(f, xv, yv), EvalFactors(fs \ {f}, xv, yv))

EvalFactors(fs, xv, yv) ==
    IF fs = {} THEN Returned(NumValue(ROne))
    ELSE FactorStep(CHOOSE f \in fs : TRUE, fs, xv, yv)

EvalTerm(t, xv, yv) == MulOutcomes(Returned(NumValue(t.c)), EvalFactors(t.m, xv, yv))

EvalTermStep(t, ts, xv, yv) ==
    AddOutcomes(EvalTerm(t, xv, yv), EvalTerms(ts \ {t}, xv, yv))

EvalTerms(ts, xv, yv) ==
    IF ts = {} THEN Returned(NumValue(RZero))
    ELSE EvalTermStep(CHOOSE t \in ts : TRUE, ts, xv, yv)

\* f_func(x_input, y_input)
CallLambda(expr, xv, yv) == EvalTerms(expr, xv, yv)

\* float(o)
Float(o) == IF o.st # "ok" THEN o ELSE Returned(PyVal("float", o.val.cell))

\* ------------------------------------------------------- the sampling grid

Axis == 1..GridN

\* np.linspace(lo, hi, n)
linspace(lo, hi, n) == [i \in 1..n |-> Rat(lo * (n - 1) + (hi - lo) * (i - 1), n - 1)]

NdArray(data) == [ty |-> "ndarray", shape |-> <<GridN, GridN>>, data |-> data]

x_range == linspace(GridLo, GridHi, GridN)
y_range == linspace(GridLo, GridHi, GridN)

\* np.meshgrid(x_range, y_range): X varies along a row, Y along a column
MeshX == NdArray([i \in Axis |-> [j \in Axis |-> CRat(x_range[j])]])
MeshY == NdArray([i \in Axis |-> [j \in Axis |-> CRat(y_range[i])]])

Element(A, i, j) == PyVal("ndarray", A.data[i][j])

\* The outcome of the generated code in every cell.  Whether it raises, and the
\* type it returns, are the same in every cell: an operation on an array
\* operand never raises, and one on constants does not depend on the cell.
CellOutcomes(expr) ==
    [i \in Axis |-> [j \in Axis |->
        CallLambda(expr, Element(MeshX, i, j), Element(MeshY, i, j))]]

\* An expression without x and y returns the scalar, any other the array.
GridResult(o) ==
    IF o[1][1].st # "ok" \/ o[1][1].val.ty # "ndarray" THEN o[1][1]
    ELSE Returned(NdArray([i \in Axis |-> [j \in Axis |-> o[i][j].val.cell]]))

\* f_func(X, Y)
CallOnGrid(expr) == GridResult(CellOutcomes(expr))

\* A faulty isinstance that misses the subclass np.float64.
IsExactlyIntOrFloat(Z) == Z.ty \in {"int", "float"}

\* isinstance(Z, (int, float)): np.float64 is a subclass of float
IsIntOrFloat(Z) == Z.ty \in {"int", "float", "npfloat"}

\* np.full_like(X, Z)
full_like(A, Z) == NdArray([i \in Axis |-> [j \in Axis |-> Z.cell]])

\* sp.latex(expr): the string that renders expr
latex(expr) == [ty |-> "str", tex |-> expr]

\* ------------------------------------------------------- process_function

ResultTuple(X, Y, Z, z_val, fx_val, fy_val, lf, lfx, lfy, err) ==
    [ty |-> "tuple", X |-> X, Y |-> Y, Z |-> Z, z0 |-> z_val, fx |-> fx_val, fy |-> fy_val,
     latex_f |-> lf, latex_fx |-> lfx, latex_fy |-> lfy, error_msg |-> err]

\* Z = f_func(X, Y); a scalar is spread over the grid; return
AfterGrid(expr, fx_expr, fy_expr, z_val, fx_val, fy_val, Z) ==
    IF Z.st # "ok" THEN Z
    ELSE Returned(ResultTuple(MeshX, MeshY,
                              IF IsIntOrFloat(Z.val) THEN full_like(MeshX, Z.val) ELSE Z.val,
                              z_val, fx_val, fy_val,
                              latex(expr), latex(fx_expr), latex(fy_expr), None))

\* z_val, fx_val, fy_val = float(...)
AfterPoint(expr, fx_expr, fy_expr, z, fx, fy) ==
    IF z.st # "ok" THEN z
    ELSE IF fx.st # "ok" THEN fx
    ELSE IF fy.st # "ok" THEN fy
    ELSE AfterGrid(expr, fx_expr, fy_expr, z.val, fx.val, fy.val, CallOnGrid(expr))

\* the three lambdify calls and the three point evaluations
AfterDiff(expr, fx_expr, fy_expr, x_input, y_input) ==
    AfterPoint(expr, fx_expr, fy_expr,
               Float(CallLambda(expr, x_input, y_input)),
               Float(CallLambda(fx_expr, x_input, y_input)),
               Float(CallLambda(fy_expr, x_input, y_input)))

\* fx_expr = sp.diff(expr, x); fy_expr = sp.diff(expr, y)
AfterSympify(e, x_input, y_input) ==
    IF e.st # "ok" THEN e
    ELSE AfterDiff(e.val, diff(e.val, "x"), diff(e.val, "y"), x_input, y_input)

\* the body of the try block
TryBody(formula_str, x_input, y_input) ==
    AfterSympify(sympify(formula_str), x_input, y_input)

\* except Exception as e
Catches(e) == e.cls \in ExceptionClasses

\* return None, ..., None, str(e)
FailureTuple(e) ==
    ResultTuple(None, None, None, None, None, None, None, None, None, Str(e.msg))

Handle(o) ==
    IF o.st = "ok" THEN [ret |-> o.val, escaped |-> NoExc]
    ELSE IF Catches(o.exc) THEN [ret |-> FailureTuple(o.exc), escaped |-> NoExc]
    ELSE [ret |-> None, escaped |-> o.exc]

\* What the call returns, or the exception that leaves it.
process_function(formula_str, x_input, y_input) ==
    Handle(TryBody(formula_str, x_input, y_input))

\* ------------------------------------------------------------ the sidebar

ScenarioA == "Scenario A: Symmetrical Hill"
ScenarioB == "Scenario B: Mountain Pass"
Custom == "Custom (Enter your own formula)"
Scenarios == {ScenarioA, ScenarioB, Custom}

FormulaA == <<"100", "-", "x", "**", "2", "-", "y", "**", "2">>
FormulaB == <<"x", "**", "2", "-", "y", "**", "2", "+", "50">>
DefaultCustom == <<"sin", "(", "x", ")", "+", "cos", "(", "y", ")">>

\* The strings typed into the text input.
TypedFormulas ==
    { DefaultCustom,
      <<"sin", "(", "x", ")">>,
      <<"y", "**", "2">>,
      <<"exp", "(", "x", ")">>,
      <<"x", "*", "y">>,
      <<"10">>,
      <<"0.5">>,
      <<"sin", "(", "1", ")">>,
      <<>>,
      <<"x", "+", "*", "y">>,
      <<"(", "x">>,
      <<"log", "(", "x", ")">>,
      <<"1", "/", "x">>,
      <<"1", "/", "sin", "(", "x", ")">>,
      <<"x", "/", "10">>,
      <<"x", "+", "z">>,
      <<"x", "+", "z", "-", "z">>,
      <<"0", "*", "z", "+", "x">>,
      <<"foo", "(", "x", ")">>,
      <<"0", "*", "foo", "(", "x", ")", "+", "y">>,
      <<"exec", "(", "'raise Exception()'", ")">>,
      <<"exec", "(", "'raise SystemExit'", ")">> }

Ticks == (-MaxTick..MaxTick) \cup {-SliderDefault, SliderDefault}

\* The float a slider returns at tick t.
SliderValue(t) == PyFloat(Rat(t, TicksPerUnit))

\* -------------------------------------------------------------- the script

VARIABLES
    scenario,        \* the selectbox
    custom_formula,  \* the text input
    x_val, y_val,    \* the sliders, in ticks
    show_gradient,   \* the checkboxes
    show_tangent,
    pc,              \* where the run of the script stands
    result,          \* the tuple unpacked at line 82, None before
    escaped,         \* the exception that ended the run, NoExc if none
    grad_mag,        \* the gradient magnitude computed in col1
    ui,              \* the elements col1 has shown
    fig              \* the traces of the figure col2 has plotted

vars ==
    <<scenario, custom_formula, x_val, y_val, show_gradient, show_tangent,
      pc, result, escaped, grad_mag, ui, fig>>

user_formula ==
    IF scenario = Custom THEN custom_formula
    ELSE IF scenario = ScenarioA THEN FormulaA
    ELSE FormulaB

\* if error_msg:
Truthy(v) == v.ty = "str" /\ v.s # ""

\* The literal 0.1 of both comparisons of grad_mag.
Threshold == Rat(1, 10)

\* fx**2 + fy**2
SquaredMagnitude(fx_val, fy_val) ==
    VAdd(VMul(fx_val.cell, fx_val.cell), VMul(fy_val.cell, fy_val.cell))

\* How np.sqrt(sq) compares with thr: a nan is unordered, a float of
\* unknown value may fall on either side.
Orders(sq, thr) ==
    IF sq.c = "nan" THEN {"unordered"}
    ELSE IF sq.c = "inf" THEN {"gt"}
    ELSE IF sq.c = "fin" THEN {"lt", "gt"}
    ELSE IF RLt(sq.q, RMul(thr, thr)) THEN {"lt"}
    ELSE IF sq.q = RMul(thr, thr) THEN {"eq"}
    ELSE {"gt"}

GradMag(sq, ord) == [sq |-> sq, ord |-> ord]
NoGrad == GradMag(CNan, "unset")

\* A faulty comparison grad_mag <= 0.1.
IsFlatOrEqual(g) == g.ord \in {"lt", "eq"}

\* grad_mag < 0.1
IsFlat(g) == g.ord = "lt"

\* show_gradient and grad_mag > 0.1
DrawsCone(show, g) == show /\ g.ord = "gt"

Init ==
    /\ scenario = ScenarioA
    /\ custom_formula = DefaultCustom
    /\ x_val = SliderDefault
    /\ y_val = SliderDefault
    /\ show_gradient = TRUE
    /\ show_tangent = FALSE
    /\ pc = "line82"
    /\ result = None
    /\ escaped = NoExc
    /\ grad_mag = NoGrad
    /\ ui = {}
    /\ fig = {}

ScriptOver == pc \in {"done", "crashed", "aborted"}

\* A widget change reruns the script from the top.
Rerun ==
    /\ ScriptOver
    /\ pc' = "line82"
    /\ result' = None
    /\ escaped' = NoExc
    /\ grad_mag' = NoGrad
    /\ ui' = {}
    /\ fig' = {}

\* The text input exists only under Custom and starts from its default there.
SelectScenario(s) ==
    /\ s # scenario
    /\ Rerun
    /\ scenario' = s
    /\ custom_formula' = DefaultCustom
    /\ UNCHANGED <<x_val, y_val, show_gradient, show_tangent>>

EnterFormula(f) ==
    /\ scenario = Custom
    /\ f # custom_formula
    /\ Rerun
    /\ custom_formula' = f
    /\ UNCHANGED <<scenario, x_val, y_val, show_gradient, show_tangent>>

MoveX(t) ==
    /\ t # x_val
    /\ Rerun
    /\ x_val' = t
    /\ UNCHANGED <<scenario, custom_formula, y_val, show_gradient, show_tangent>>

MoveY(t) ==
    /\ t # y_val
    /\ Rerun
    /\ y_val' = t
    /\ UNCHANGED <<scenario, custom_formula, x_val, show_gradient, show_tangent>>

ToggleGradient ==
    /\ Rerun
    /\ show_gradient' = ~show_gradient
    /\ UNCHANGED <<scenario, custom_formula, x_val, y_val, show_tangent>>

ToggleTangent ==
    /\ Rerun
    /\ show_tangent' = ~show_tangent
    /\ UNCHANGED <<scenario, custom_formula, x_val, y_val, show_gradient>>

\* X, ..., error_msg = process_function(user_formula, x_val, y_val)
Line82(r) ==
    /\ result' = r.ret
    /\ escaped' = r.escaped
    /\ pc' = IF r.escaped = NoExc THEN "col1" ELSE "aborted"

CallProcessFunction ==
    /\ pc = "line82"
    /\ Line82(process_function(user_formula, SliderValue(x_val), SliderValue(y_val)))
    /\ UNCHANGED <<scenario, custom_formula, x_val, y_val, show_gradient, show_tangent,
                   grad_mag, ui, fig>>

\* with col1: if error_msg: st.error(...)
Col1Error ==
    /\ pc = "col1"
    /\ Truthy(result.error_msg)
    /\ ui' = {"st.error"}
    /\ pc' = "col2"
    /\ UNCHANGED <<scenario, custom_formula, x_val, y_val, show_gradient, show_tangent,
                   result, escaped, grad_mag, fig>>

\* else: st.info(...), then f"{z0:.2f} m" with z0 = None raises TypeError
Col1Crash ==
    /\ pc = "col1"
    /\ ~Truthy(result.error_msg)
    /\ result.z0 = None
    /\ ui' = {"st.info"}
    /\ escaped' = Exc("TypeError", "unsupported format string passed to NoneType.__format__")
    /\ pc' = "crashed"
    /\ UNCHANGED <<scenario, custom_formula, x_val, y_val, show_gradient, show_tangent,
                   result, grad_mag, fig>>

\* else: the metrics, grad_mag and the steepness message
Col1Analysis ==
    /\ pc = "col1"
    /\ ~Truthy(result.error_msg)
    /\ result.z0 # None
    /\ \E o \in Orders(SquaredMagnitude(result.fx, result.fy), Threshold) :
          /\ grad_mag' = GradMag(SquaredMagnitude(result.fx, result.fy), o)
          /\ ui' = {"st.info", "st.metric", "st.latex",
                    IF IsFlat(GradMag(SquaredMagnitude(result.fx, result.fy), o))
                    THEN "FLAT LAND" ELSE "STEEP TERRAIN"}
    /\ pc' = "col2"
    /\ UNCHANGED <<scenario, custom_formula, x_val, y_val, show_gradient, show_tangent,
                   result, escaped, fig>>

\* with col2: if not error_msg: the figure and its traces
Col2 ==
    /\ pc = "col2"
    /\ fig' = IF Truthy(result.error_msg) THEN {}
              ELSE {"Surface", "Surveyor (You)"}
                   \cup (IF DrawsCone(show_gradient, grad_mag) THEN {"Gradient (Ascent)"} ELSE {})
                   \cup (IF show_tangent THEN {"Tangent Plane"} ELSE {})
    /\ pc' = "done"
    /\ UNCHANGED <<scenario, custom_formula, x_val, y_val, show_gradient, show_tangent,
                   result, escaped, grad_mag, ui>>

Next ==
    \/ \E s \in Scenarios : SelectScenario(s)
    \/ \E f \in TypedFormulas : EnterFormula(f)
    \/ \E t \in Ticks : MoveX(t)
    \/ \E t \in Ticks : MoveY(t)
    \/ ToggleGradient
    \/ ToggleTangent
    \/ CallProcessFunction
    \/ Col1Error
    \/ Col1Crash
    \/ Col1Analysis
    \/ Col2

Spec == Init /\ [][Next]_vars

\* ------------------------------------------------------------- properties

\* process_function has been called in this run of the script.
Called == pc # "line82"

\* The call returned (no exception left it).
ReturnedTuple == Called /\ pc # "aborted"

ResultSlots(r) == {r.X, r.Y, r.Z, r.z0, r.fx, r.fy, r.latex_f, r.latex_fx, r.latex_fy}

\* The tuple of line 77: nine results and None in the error slot.
IsSuccess(r) == r.ty = "tuple" /\ None \notin ResultSlots(r) /\ r.error_msg = None

\* The tuple of line 80: nine None and the error description.
IsFailure(r) == r.ty = "tuple" /\ ResultSlots(r) = {None} /\ r.error_msg.ty = "str"

Tokens(ts) == {ts[i] : i \in 1..Len(ts)}

\* A well-formed expression over x, y and the functions sympy knows.
ValidFormula(ts) ==
    /\ Compiles(ts)
    /\ Tokens(ts) \cap StringTokens = {}
    /\ Tokens(ts) \cap NameTokens \subseteq {"x", "y"} \cup KnownFunctions

\* A valid formula that names exactly one of x and y.
OneVariable(ts) == ValidFormula(ts) /\ (("x" \in Tokens(ts)) # ("y" \in Tokens(ts)))

Position(t) == Rat(t, TicksPerUnit)

\* C1: process_function never lets an exception escape, and what it returns
\* is the complete success tuple or the failure tuple with nine None.
C1_NoEscapeTwoShapes ==
    Called => /\ escaped.cls # "SystemExit"
              /\ pc # "aborted"
              /\ IsSuccess(result) \/ IsFailure(result)

\* C1: the run in which an exception leaves process_function.
C1_Witness == pc = "aborted" /\ escaped.cls = "SystemExit" /\ result = None

\* C2: after a failure tuple, whatever the error description, the script shows
\* the error and runs neither the metric display nor the figure construction.
C2_NoDisplayOnFailure ==
    (ReturnedTuple /\ IsFailure(result)) =>
        /\ "st.info" \notin ui
        /\ "st.metric" \notin ui
        /\ pc # "crashed"
        /\ fig = {}
        /\ pc \in {"col2", "done"} => "st.error" \in ui

\* C2: a failure tuple with an empty description entered the display branch.
C2_Witness ==
    /\ IsFailure(result)
    /\ result.error_msg = Str("")
    /\ "st.info" \in ui
    /\ pc = "crashed"

\* C3: in every success result z0, fx0 and fy0 are finite real numbers.
C3_FinitePointValues ==
    IsSuccess(result) =>
        /\ IsFinite(result.z0.cell)
        /\ IsFinite(result.fx.cell)
        /\ IsFinite(result.fy.cell)

\* C3: log(x) at x0 = -1 returned a success result whose z0 is nan.
C3_Witness ==
    /\ user_formula = <<"log", "(", "x", ")">>
    /\ x_val = -TicksPerUnit
    /\ IsSuccess(result)
    /\ result.z0.cell = CNan

\* C4: a formula that is not a valid expression over x, y and the known
\* functions never yields a success result.
C4_InvalidRejected ==
    (Called /\ ~ValidFormula(user_formula)) => ~IsSuccess(result)

\* C4: a formula with a third variable that cancels out was accepted.
C4_Witness ==
    /\ user_formula = <<"x", "+", "z", "-", "z">>
    /\ IsSuccess(result)
    /\ pc = "done"

\* C5: the elevation grid Z of every success result has only finite entries.
C5_FiniteGrid ==
    IsSuccess(result) => \A i \in Axis : \A j \in Axis : IsFinite(result.Z.data[i][j])

\* C5: a success result with finite values at the query point and a nan in Z.
C5_Witness ==
    /\ IsSuccess(result)
    /\ IsFinite(result.z0.cell) /\ IsFinite(result.fx.cell) /\ IsFinite(result.fy.cell)
    /\ \E i \in Axis : \E j \in Axis : result.Z.data[i][j] = CNan

\* C6: in every success result Z is an array of the shape of X and Y; a
\* formula without x and y fills it with its value ("10" with 10), and a
\* formula without one of them repeats its values along that axis.
C6_GridShape ==
    IsSuccess(result) =>
        /\ result.Z.ty = "ndarray"
        /\ result.Z.shape = result.X.shape
        /\ result.Z.shape = result.Y.shape
        /\ result.Z.shape = <<GridN, GridN>>
        /\ user_formula = <<"10">> =>
              \A i \in Axis : \A j \in Axis : result.Z.data[i][j] = CRat(RInt(10))
        /\ Tokens(user_formula) \cap {"x", "y"} = {} =>
              \A i \in Axis : \A j \in Axis : result.Z.data[i][j] = result.z0.cell
        /\ "y" \notin Tokens(user_formula) =>
              \A i \in Axis : \A j \in Axis : result.Z.data[i][j] = result.Z.data[1][j]
        /\ "x" \notin Tokens(user_formula) =>
              \A i \in Axis : \A j \in Axis : result.Z.data[i][j] = result.Z.data[i][1]

\* C6: a constant formula whose evaluator returns a np.float64 succeeded.
C6_Witness ==
    /\ user_formula = <<"sin", "(", "1", ")">>
    /\ IsSuccess(result)
    /\ result.Z.ty = "ndarray"

\* C7: the presets succeed with the analytic values: for Scenario A
\* fx0 = -2*x0 and fy0 = -2*y0; for Scenario B z0 = x0^2 - y0^2 + 50,
\* fx0 = 2*x0 and fy0 = -2*y0, so at (1,1) z0 = 50, fx0 = 2, fy0 = -2 and the
\* squared gradient magnitude is 8.
C7_PresetsExact ==
    (Called /\ scenario # Custom) =>
        /\ IsSuccess(result)
        /\ scenario = ScenarioA =>
              /\ result.fx = PyFloat(RMul(RInt(-2), Position(x_val)))
              /\ result.fy = PyFloat(RMul(RInt(-2), Position(y_val)))
        /\ scenario = ScenarioB =>
              /\ result.z0 = PyFloat(RAdd(RAdd(RMul(Position(x_val), Position(x_val)),
                                               RNeg(RMul(Position(y_val), Position(y_val)))),
                                          RInt(50)))
              /\ result.fx = PyFloat(RMul(RInt(2), Position(x_val)))
              /\ result.fy = PyFloat(RMul(RInt(-2), Position(y_val)))
        /\ (scenario = ScenarioB /\ x_val = TicksPerUnit /\ y_val = TicksPerUnit) =>
              /\ result.z0 = PyFloat(RInt(50))
              /\ result.fx = PyFloat(RInt(2))
              /\ result.fy = PyFloat(RInt(-2))
              /\ SquaredMagnitude(result.fx, result.fy) = CRat(RInt(8))

\* C7: Scenario B was analysed at the point (1,1).
C7_Witness ==
    /\ scenario = ScenarioB
    /\ x_val = TicksPerUnit /\ y_val = TicksPerUnit
    /\ IsSuccess(result)
    /\ pc = "done"

\* In a success result the derivative with respect to the variable the formula
\* does not name is the zero expression, and its value is 0.0.
UnusedDerivativeZero(ts, r) ==
    /\ "y" \notin Tokens(ts) => r.latex_fy = latex({}) /\ r.fy = PyFloat(RZero)
    /\ "x" \notin Tokens(ts) => r.latex_fx = latex({}) /\ r.fx = PyFloat(RZero)

C9_Classification ==
    (pc \in {"col2", "done"} /\ IsSuccess(result)) =>
        /\ ("FLAT LAND" \in ui) # ("STEEP TERRAIN" \in ui)
        /\ SquaredMagnitude(result.fx, result.fy).c = "inf" => "STEEP TERRAIN" \in ui
        /\ SquaredMagnitude(result.fx, result.fy).c = "rat" =>
              ("FLAT LAND" \in ui <=>
                  RLt(SquaredMagnitude(result.fx, result.fy).q, Rat(1, 100)))

\* C9: a magnitude of exactly 0.1 was classified as steep.
C9_Witness ==
    /\ pc = "done"
    /\ IsSuccess(result)
    /\ SquaredMagnitude(result.fx, result.fy) = CRat(Rat(1, 100))
    /\ "STEEP TERRAIN" \in ui

\* C10: on a success result with Show Gradient on, the cone is drawn exactly
\* when the terrain was reported steep.
C10_ArrowAgrees ==
    (pc = "done" /\ IsSuccess(result) /\ show_gradient) =>
        ("Gradient (Ascent)" \in fig <=> "STEEP TERRAIN" \in ui)

\* C10: the terrain was reported steep and no cone was drawn.
C10_Witness ==
    /\ pc = "done"
    /\ IsSuccess(result)
    /\ show_gradient
    /\ "STEEP TERRAIN" \in ui
    /\ "Gradient (Ascent)" \notin fig

====
